---- MODULE Spec2Model ----
(***************************************************************************)
(* Model of the two aggregators of app/utils.py:                           *)
(*   get_comics_count_from_characters  (character listing + one lookup     *)
(*                                      per surviving character)           *)
(*   get_comics_count_from_comics      (comic listing, flatten, group by)  *)
(* One request is served at a time (synchronous, single-threaded code).    *)
(* An Optional[T] value is a sequence of length 0 (None) or 1 (the value). *)
(***************************************************************************)
EXTENDS Integers, Sequences, FiniteSets, TLC

VARIABLES op, pc, character_name, limit, primary, characters_data,
          characters_df, comics_counts, calls, comics_data, aggregated_data,
          result, previous, compare_raises, chart

vars == <<op, pc, character_name, limit, primary, characters_data,
          characters_df, comics_counts, calls, comics_data, aggregated_data,
          result, previous, compare_raises, chart>>

(* ------------------------------ bounds --------------------------------- *)
MaxCharacters == 2
MaxComics == 2

(* --------------------------- sample values ----------------------------- *)
None == <<>>
Some(v) == <<v>>

CharacterNames == {"A", "B", ""}
CharacterIds == {1, 2}
ComicIds == {10, 11}
ItemLists == {<<>>, <<"A">>, <<"B">>, <<"A", "B">>, <<"B", "A">>, <<"A", "A">>}
Availabilities == {0, 1}
ResultSizes == {0, 3, 5}
NameFilters == {None, Some(""), Some("A"), Some("a")}
Limits == {None, Some(0), Some(2)}

SeqsUpTo(S, n) == UNION {[1..k -> S] : k \in 0..n}

CharacterEntries == [name : CharacterNames, id : CharacterIds]
CharacterLists == SeqsUpTo(CharacterEntries, MaxCharacters)

ComicEntries ==
    [id : ComicIds, has_characters : {TRUE}, available : Availabilities,
     items : ItemLists]
    \cup [id : ComicIds, has_characters : {FALSE}, available : {0},
          items : {<<>>}]
ComicLists == SeqsUpTo(ComicEntries, MaxComics)

(* Outcomes of the primary listing calls. *)
CharacterResponses ==
    [status : {"ok"}, results : CharacterLists]
    \cup [status : {"http_error", "transport_error"}, results : {<<>>}]
ComicResponses ==
    [status : {"ok"}, results : ComicLists]
    \cup [status : {"http_error", "transport_error"}, results : {<<>>}]

(* Outcomes of one per-character comics call: the transport raised, or a   *)
(* response arrived with a status code and data.results of some length.    *)
LookupResponses ==
    [raised : {TRUE}, status_code : {0}, results : {0}]
    \cup [raised : {FALSE}, status_code : {500}, results : {0}]
    \cup [raised : {FALSE}, status_code : {200}, results : ResultSizes]

(* ----------------------------- results --------------------------------- *)
ErrorObject(msg) == [kind |-> "error", error |-> msg, rows |-> <<>>]
RowList(rows) == [kind |-> "list", error |-> "", rows |-> rows]
NoResult == [kind |-> "none", error |-> "", rows |-> <<>>]

\* A polars frame as returned by aggregate_comics_results: either the grouped
\* counts (group_by yields the groups in no guaranteed order, so they are a
\* set here) or the one-column "error" frame built by an except clause.
Frame(groups) == [kind |-> "frame", error |-> "", groups |-> groups]
ErrorFrame(msg) == [kind |-> "error_frame", error |-> msg, groups |-> {}]
NoFrame == [kind |-> "none", error |-> "", groups |-> {}]

\* What visualize_comics_counts does with the aggregator's value: the list it
\* hands to plot_comics_count_bar_graph, or an exception leaving the handler.
Chart(rows) == [kind |-> "chart", rows |-> rows]
ChartRaised == [kind |-> "raised", rows |-> <<>>]
NoChart == [kind |-> "none", rows |-> <<>>]

\* str.lower() on the sample names.
Lower(s) == CASE s = "A" -> "a" [] s = "B" -> "b" [] OTHER -> s

IsTruthyName(name) == name # None /\ name[1] # ""
IsTruthyLimit(lim) == lim # None /\ lim[1] # 0

(* ------------------------- character aggregator ------------------------ *)

\* fetch_characters: the request parameters (limit only when truthy).
fetch_characters_params(lim) ==
    [url |-> "characters", orderBy |-> "name",
     limit |-> IF IsTruthyLimit(lim) THEN lim ELSE None, character_id |-> 0]

\* An entry of calls (the outbound calls of the current request, in order):
\* the request, whether a 2xx response came back, and len(data.results).
Call(params, succeeded, results) ==
    [url |-> params.url, orderBy |-> params.orderBy, limit |-> params.limit,
     character_id |-> params.character_id, succeeded |-> succeeded,
     results |-> results]

\* get_comics_count: the per-character request.
get_comics_count_params(character_id) ==
    [url |-> "comics_per_character", orderBy |-> "", limit |-> None,
     character_id |-> character_id]

\* get_comics: the comic listing request.
get_comics_params ==
    [url |-> "comics", orderBy |-> "", limit |-> None, character_id |-> 0]

\* fetch_characters: (payload, error); raise_for_status turns a non-2xx
\* status into an error, a transport failure is one already.
fetch_characters(response) ==
    IF response.status = "ok"
    THEN [payload |-> response.results, error |-> None]
    ELSE [payload |-> <<>>, error |-> Some(response.status)]

CharacterRecordsUnique(results) ==
    SelectSeq([i \in 1..Len(results) |->
                 [character_name |-> results[i].name,
                  character_id |-> results[i].id,
                  first |-> \A k \in 1..(i - 1) : results[k].name # results[i].name]],
              LAMBDA c : c.first)

\* aggregate_characters: one record per upstream entry, in order.
CharacterRecords(results) ==
    [i \in 1..Len(results) |->
        [character_name |-> results[i].name, character_id |-> results[i].id]]

FilterCharactersIgnored(characters, name) == characters

FilterCharactersFirstMatch(characters, name) ==
    LET matches == SelectSeq(characters,
                             LAMBDA c : c.character_name = name[1])
    IN  IF ~IsTruthyName(name) THEN characters
        ELSE IF matches = <<>> THEN <<>>
        ELSE <<matches[1]>>

\* aggregate_characters: the name filter (exact equality), when truthy.
FilterCharacters(characters, name) ==
    IF IsTruthyName(name)
    THEN SelectSeq(characters, LAMBDA c : c.character_name = name[1])
    ELSE characters

get_comics_count_sentinel(response) ==
    IF response.raised THEN -1
    ELSE IF response.status_code = 200 THEN response.results
    ELSE -1

\* get_comics_count: len(data.results) on a 200, 0 on anything else.
get_comics_count(response) ==
    IF response.raised THEN 0
    ELSE IF response.status_code = 200 THEN response.results
    ELSE 0

\* select(["character_name", "comics_count"]).to_dicts()
CharacterRows(df, counts) ==
    [i \in 1..Len(df) |->
        [character_name |-> df[i].character_name, comics_count |-> counts[i]]]

Init ==
    /\ op = "none"
    /\ pc = "idle"
    /\ character_name = None
    /\ limit = None
    /\ primary = "none"
    /\ characters_data = <<>>
    /\ characters_df = <<>>
    /\ comics_counts = <<>>
    /\ calls = <<>>
    /\ comics_data = <<>>
    /\ aggregated_data = NoFrame
    /\ result = NoResult
    /\ previous = NoResult
    /\ compare_raises \in BOOLEAN
    /\ chart = NoChart

\* get_comics_count_from_characters is entered.
CallFromCharacters ==
    /\ pc \in {"idle", "done"}
    /\ \E name \in NameFilters, lim \in Limits :
        /\ character_name' = name
        /\ limit' = lim
    /\ op' = "characters"
    /\ pc' = "fetch_characters"
    /\ primary' = "none"
    /\ characters_data' = <<>>
    /\ characters_df' = <<>>
    /\ comics_counts' = <<>>
    /\ calls' = <<>>
    /\ comics_data' = <<>>
    /\ aggregated_data' = NoFrame
    /\ result' = NoResult
    /\ previous' = NoResult
    /\ chart' = NoChart
    /\ UNCHANGED compare_raises

\* The character listing call and everything up to the first lookup.
FetchCharacters ==
    /\ pc = "fetch_characters"
    /\ \E response \in CharacterResponses :
        LET data == fetch_characters(response)
            df == FilterCharacters(CharacterRecords(data.payload), character_name)
        IN  /\ primary' = response.status
            /\ calls' = Append(calls,
                    Call(fetch_characters_params(limit),
                         response.status = "ok", Len(response.results)))
            /\ characters_data' = data.payload
            /\ IF data.error # None
               THEN /\ result' = ErrorObject("Error fetching data")
                    /\ characters_df' = <<>>
                    /\ pc' = "done"
               ELSE IF data.payload = <<>>
               THEN /\ result' = ErrorObject("No characters found in the data")
                    /\ characters_df' = <<>>
                    /\ pc' = "done"
               ELSE IF df = <<>>
               THEN /\ result' = RowList(<<>>)
                    /\ characters_df' = df
                    /\ pc' = "done"
               ELSE /\ result' = NoResult
                    /\ characters_df' = df
                    /\ pc' = "get_comics_count"
    /\ UNCHANGED <<op, character_name, limit, comics_counts, comics_data,
                   aggregated_data, previous, compare_raises, chart>>

\* One per-character comics call, for the next row of the filtered frame.
GetComicsCount ==
    /\ pc = "get_comics_count"
    /\ \E response \in LookupResponses :
        LET i == Len(comics_counts) + 1
            counts == Append(comics_counts, get_comics_count(response))
        IN  /\ calls' = Append(calls,
                    Call(get_comics_count_params(characters_df[i].character_id),
                         ~response.raised /\ response.status_code = 200,
                         response.results))
            /\ comics_counts' = counts
            /\ IF i = Len(characters_df)
               THEN /\ result' = RowList(CharacterRows(characters_df, counts))
                    /\ pc' = "done"
               ELSE /\ result' = result
                    /\ pc' = "get_comics_count"
    /\ UNCHANGED <<op, character_name, limit, primary, characters_data,
                   characters_df, comics_data, aggregated_data, previous,
                   compare_raises, chart>>

(* --------------------------- comic aggregator -------------------------- *)

get_comics_empty_on_failure(response) ==
    IF response.status # "ok"
    THEN RowList(<<>>)
    ELSE IF response.results = <<>>
    THEN ErrorObject("No comic data found in the response.")
    ELSE RowList(response.results)

\* get_comics: the comic list, or an error dict when the call fails
\* (raise_for_status, transport) or data.results is empty.
get_comics(response) ==
    IF response.status # "ok"
    THEN ErrorObject("Request error")
    ELSE IF response.results = <<>>
    THEN ErrorObject("No comic data found in the response.")
    ELSE RowList(response.results)

RetainedComicsInclusive(comics) ==
    SelectSeq(comics, LAMBDA comic : comic.available >= 0)

\* filter(lambda comic: comic["characters"]["available"] > 0, comics_data)
RetainedComics(comics) ==
    SelectSeq(comics, LAMBDA comic : comic.available > 0)

\* The flattened (comic_id, character_name) columns: one row per item of
\* each retained comic, comics in input order.
RECURSIVE ComicPairs(_)
ComicPairs(data) ==
    IF data = <<>> THEN <<>>
    ELSE [j \in 1..Len(Head(data).items) |->
            [comic_id |-> Head(data).id,
             character_name |-> Head(data).items[j]]]
         \o ComicPairs(Tail(data))

\* df.filter(pl.col("character_name") == character_name), when truthy.
FilterPairs(pairs, name) ==
    IF IsTruthyName(name)
    THEN SelectSeq(pairs, LAMBDA p : p.character_name = name[1])
    ELSE pairs

GroupCountRows(pairs) ==
    {[character_name |-> n,
      comics_count |->
        Cardinality({i \in 1..Len(pairs) : pairs[i].character_name = n})] :
        n \in {pairs[i].character_name : i \in 1..Len(pairs)}}

\* groupby("character_name").agg(pl.col("comic_id").n_unique())
GroupCountUnique(pairs) ==
    {[character_name |-> n,
      comics_count |->
        Cardinality({pairs[i].comic_id :
                        i \in {k \in 1..Len(pairs) :
                                  pairs[k].character_name = n}})] :
        n \in {pairs[i].character_name : i \in 1..Len(pairs)}}

\* aggregate_comics_results.  raises: a frame built from two empty lists has
\* untyped columns, and whether the string comparison of the name filter
\* raises on it depends on the installed polars (the variable compare_raises).
aggregate_comics_results(comics, name, raises) ==
    IF \E i \in 1..Len(comics) : ~comics[i].has_characters
    THEN ErrorFrame("Missing key 'characters' in the comic data.")
    ELSE IF RetainedComics(comics) = <<>>
    THEN ErrorFrame("Type error encountered during processing.")
    ELSE IF /\ ComicPairs(RetainedComics(comics)) = <<>>
            /\ IsTruthyName(name)
            /\ raises
    THEN ErrorFrame("An unexpected error occurred during processing.")
    ELSE Frame(GroupCountUnique(
                 FilterPairs(ComicPairs(RetainedComics(comics)), name)))

\* The row orders to_dicts() can produce for a frame.
RowOrders(frame) ==
    IF frame.kind = "error_frame"
    THEN {<<[error |-> frame.error]>>}
    ELSE {rows \in [1..Cardinality(frame.groups) -> frame.groups] :
            \A i, j \in DOMAIN rows : rows[i] = rows[j] => i = j}

\* visualize_comics_counts after the aggregator returned value: the
\* comprehension data["character_name"].lower() == character_name.lower()
\* when character_name is truthy, then plot_comics_count_bar_graph, which
\* reads x["comics_count"] of every element.  Iterating an error dict yields
\* its keys (strings), and an error row has neither key: both raise.
visualize_chart(value, name) ==
    IF value.kind = "error" THEN ChartRaised
    ELSE IF \E i \in 1..Len(value.rows) :
               DOMAIN value.rows[i] # {"character_name", "comics_count"}
    THEN ChartRaised
    ELSE IF IsTruthyName(name)
    THEN Chart(SelectSeq(value.rows,
                         LAMBDA data :
                            Lower(data.character_name) = Lower(name[1])))
    ELSE Chart(value.rows)

\* get_comics_count_from_comics is entered.
CallFromComics ==
    /\ pc \in {"idle", "done"}
    /\ \E name \in NameFilters : character_name' = name
    /\ op' = "comics"
    /\ pc' = "get_comics"
    /\ limit' = None
    /\ primary' = "none"
    /\ characters_data' = <<>>
    /\ characters_df' = <<>>
    /\ comics_counts' = <<>>
    /\ calls' = <<>>
    /\ comics_data' = <<>>
    /\ aggregated_data' = NoFrame
    /\ result' = NoResult
    /\ previous' = NoResult
    /\ chart' = NoChart
    /\ UNCHANGED compare_raises

\* get_comics_count_from_comics is entered again with the same filter while
\* the upstream catalogue is unchanged: previous keeps the result of the run
\* just finished, and the run started here receives the same comic list.
RepeatFromComics ==
    /\ pc = "done"
    /\ op = "comics"
    /\ primary = "ok"
    /\ previous = NoResult
    /\ previous' = result
    /\ pc' = "get_comics"
    /\ primary' = "none"
    /\ calls' = <<>>
    /\ aggregated_data' = NoFrame
    /\ result' = NoResult
    /\ UNCHANGED <<op, character_name, limit, characters_data, characters_df,
                   comics_counts, comics_data, compare_raises, chart>>

\* visualize_comics_counts is entered; it calls get_comics_count_from_comics
\* with its own character_name.
CallVisualize ==
    /\ pc \in {"idle", "done"}
    /\ \E name \in NameFilters : character_name' = name
    /\ op' = "visualize"
    /\ pc' = "get_comics"
    /\ limit' = None
    /\ primary' = "none"
    /\ characters_data' = <<>>
    /\ characters_df' = <<>>
    /\ comics_counts' = <<>>
    /\ calls' = <<>>
    /\ comics_data' = <<>>
    /\ aggregated_data' = NoFrame
    /\ result' = NoResult
    /\ previous' = NoResult
    /\ chart' = NoChart
    /\ UNCHANGED compare_raises

\* The comic listing call, the aggregation and to_dicts(); under
\* visualize_comics_counts also the rest of that handler.
GetComics ==
    /\ pc = "get_comics"
    /\ \E response \in IF previous = NoResult THEN ComicResponses
                       ELSE {[status |-> "ok", results |-> comics_data]} :
        LET fetched == get_comics(response)
            frame == aggregate_comics_results(fetched.rows, character_name,
                                              compare_raises)
        IN  /\ primary' = response.status
            /\ calls' = Append(calls,
                    Call(get_comics_params, response.status = "ok",
                         Len(response.results)))
            /\ comics_data' = response.results
            /\ IF fetched.kind = "error"
               THEN /\ aggregated_data' = NoFrame
                    /\ result' = fetched
               ELSE /\ aggregated_data' = frame
                    /\ \E rows \in RowOrders(frame) : result' = RowList(rows)
    /\ chart' = IF op = "visualize"
                THEN visualize_chart(result', character_name)
                ELSE NoChart
    /\ pc' = "done"
    /\ UNCHANGED <<op, character_name, limit, characters_data, characters_df,
                   comics_counts, previous, compare_raises>>

Next ==
    \/ CallFromCharacters
    \/ FetchCharacters
    \/ GetComicsCount
    \/ CallFromComics
    \/ RepeatFromComics
    \/ CallVisualize
    \/ GetComics

Spec == Init /\ [][Next]_vars

(* ------------------------------- claims -------------------------------- *)

IsAggregatedCount(row) == DOMAIN row = {"character_name", "comics_count"}

CharactersDone == pc = "done" /\ op = "characters" /\ primary = "ok"
ComicsDone == pc = "done" /\ op = "comics" /\ primary = "ok"

\* C1: with a non-empty upstream character list, a successful listing call,
\* no name filter and no limit, the result is a list with exactly one record
\* per upstream character, carrying its name, in upstream order.
C1_OneRecordPerCharacter ==
    (CharactersDone /\ characters_data # <<>> /\ character_name = None
        /\ limit = None)
    => /\ result.kind = "list"
       /\ Len(result.rows) = Len(characters_data)
       /\ \A i \in 1..Len(characters_data) :
            /\ IsAggregatedCount(result.rows[i])
            /\ result.rows[i].character_name = characters_data[i].name

C1_Witness ==
    /\ CharactersDone /\ character_name = None /\ limit = None
    /\ Len(characters_data) = 2
    /\ characters_data[1].name = "B" /\ characters_data[2].name = "B"
    /\ result.kind = "list" /\ Len(result.rows) = 2
    /\ result.rows[1].character_name = "B"
    /\ result.rows[2].character_name = "B"

\* The number of distinct comic ids among the retained comics (available > 0)
\* whose character items contain name, read off the upstream list.
DistinctComicsWith(name) ==
    Cardinality({comics_data[i].id :
        i \in {k \in 1..Len(comics_data) :
                 /\ comics_data[k].has_characters
                 /\ comics_data[k].available > 0
                 /\ \E j \in 1..Len(comics_data[k].items) :
                        comics_data[k].items[j] = name}})

\* C2: when the comic aggregation succeeds, every record's comics_count is
\* the number of distinct comic ids among the retained comics listing that
\* character, and every listed character that passes the filter has a record.
C2_DistinctComicCount ==
    (ComicsDone /\ aggregated_data.kind = "frame")
    => /\ result.kind = "list"
       /\ \A i \in 1..Len(result.rows) :
            /\ IsAggregatedCount(result.rows[i])
            /\ result.rows[i].comics_count =
                 DistinctComicsWith(result.rows[i].character_name)
       /\ \A name \in {"A", "B"} :
            (DistinctComicsWith(name) > 0
                /\ (IsTruthyName(character_name) => character_name[1] = name))
            => \E i \in 1..Len(result.rows) :
                 result.rows[i].character_name = name

C2_Witness ==
    /\ ComicsDone /\ aggregated_data.kind = "frame"
    /\ Len(comics_data) = 2
    /\ comics_data[1].id = comics_data[2].id
    /\ comics_data[1].items = <<"A", "A">>
    /\ comics_data[2].items = <<"A", "B">>
    /\ comics_data[1].available > 0 /\ comics_data[2].available > 0
    /\ result.rows = <<[character_name |-> "A", comics_count |-> 1],
                       [character_name |-> "B", comics_count |-> 1]>>

\* C3: in the character aggregation every surviving character gets a record,
\* in the order of the filtered list, whose comics_count comes from that
\* character's own lookup: len(data.results) on success, 0 on a failed lookup;
\* a failed lookup never turns the request into an error.
C3_CountFromOwnLookup ==
    (CharactersDone /\ characters_df # <<>>)
    => /\ result.kind = "list"
       /\ Len(result.rows) = Len(characters_df)
       /\ Len(calls) = Len(characters_df) + 1
       /\ \A i \in 1..Len(characters_df) :
            /\ calls[i + 1].character_id = characters_df[i].character_id
            /\ result.rows[i].character_name = characters_df[i].character_name
            /\ result.rows[i].comics_count =
                 IF calls[i + 1].succeeded THEN calls[i + 1].results ELSE 0

C3_Witness ==
    /\ CharactersDone
    /\ Len(characters_df) = 2
    /\ ~calls[2].succeeded
    /\ calls[3].succeeded /\ calls[3].results = 5
    /\ result.kind = "list"
    /\ result.rows = <<[character_name |-> "A", comics_count |-> 0],
                       [character_name |-> "B", comics_count |-> 5]>>

\* C4: when the primary listing call fails (non-2xx status or transport
\* failure), the aggregator returns an error object as its value and makes
\* no call besides the listing call.
C4_PrimaryFailureIsErrorObject ==
    (pc = "done" /\ primary \in {"http_error", "transport_error"})
    => /\ result.kind = "error"
       /\ result.error # ""
       /\ Len(calls) = 1
       /\ calls[1].url \in {"characters", "comics"}

C4_Witness ==
    /\ pc = "done" /\ op = "comics" /\ primary = "http_error"
    /\ result.kind = "error" /\ Len(calls) = 1

WellFormedComics ==
    \A i \in 1..Len(comics_data) : comics_data[i].has_characters

\* C5: each aggregator returns either an error object or a list whose every
\* element is an AggregatedCount (character_name and comics_count).  Stated
\* for upstream comics that all carry "characters", on a build whose untyped
\* comparison does not raise.
C5_ErrorObjectOrCounts ==
    (pc = "done" /\ WellFormedComics /\ ~compare_raises)
    => \/ result.kind = "error"
       \/ /\ result.kind = "list"
          /\ \A i \in 1..Len(result.rows) : IsAggregatedCount(result.rows[i])

WithoutMalformed(comics) ==
    SelectSeq(comics, LAMBDA comic : comic.has_characters)

\* C6: a comic without the "characters" substructure is left out: the result
\* is the list of counts computed from the input without such comics.
C6_MalformedComicLeftOut ==
    (/\ ComicsDone
     /\ \E i \in 1..Len(comics_data) : ~comics_data[i].has_characters
     /\ aggregate_comics_results(WithoutMalformed(comics_data),
                                 character_name, compare_raises).kind = "frame")
    => /\ result.kind = "list"
       /\ {result.rows[i] : i \in 1..Len(result.rows)} =
            aggregate_comics_results(WithoutMalformed(comics_data),
                                     character_name, compare_raises).groups

MatchingCharacters ==
    {i \in 1..Len(characters_data) :
        character_name # None /\ characters_data[i].name = character_name[1]}

\* C7 (as stated): a name filter equal to the name of a character of the
\* upstream list yields a list of exactly one record, carrying that name.
C7_ExactlyOneRecord ==
    (CharactersDone /\ MatchingCharacters # {})
    => /\ result.kind = "list"
       /\ Len(result.rows) = 1
       /\ result.rows[1].character_name = character_name[1]

\* C7 (amended): a non-empty name filter equal to the name of at least one
\* upstream character yields a list with one record per upstream entry of
\* that name (exactly one when the name occurs once), each carrying the name.
C7_OneRecordPerMatch ==
    (CharactersDone /\ IsTruthyName(character_name)
        /\ MatchingCharacters # {})
    => /\ result.kind = "list"
       /\ Len(result.rows) = Cardinality(MatchingCharacters)
       /\ \A i \in 1..Len(result.rows) :
            result.rows[i].character_name = character_name[1]

C7_Witness ==
    /\ CharactersDone /\ character_name = Some("A")
    /\ Len(characters_data) = 2
    /\ characters_data[1].name = "B" /\ characters_data[2].name = "A"
    /\ result.kind = "list" /\ Len(result.rows) = 1
    /\ result.rows[1].character_name = "A"

NoUpstreamNameMatches ==
    /\ \A i \in 1..Len(characters_data) :
          characters_data[i].name # character_name[1]
    /\ \A i \in 1..Len(comics_data) : \A j \in 1..Len(comics_data[i].items) :
          comics_data[i].items[j] # character_name[1]

\* C8: when the listing succeeds with a non-empty result and the name filter
\* matches no character in it, both aggregators return the empty list, and no
\* call besides the listing call is made.  Stated for upstream comics that
\* all carry "characters", on a build whose untyped comparison does not raise.
C8_NoMatchGivesEmptyList ==
    (/\ pc = "done" /\ primary = "ok"
     /\ WellFormedComics /\ ~compare_raises
     /\ (characters_data # <<>> \/ comics_data # <<>>)
     /\ IsTruthyName(character_name)
     /\ NoUpstreamNameMatches)
    => /\ result = RowList(<<>>)
       /\ Len(calls) = 1

WithoutUnavailable(comics) ==
    SelectSeq(comics,
              LAMBDA comic : ~(comic.has_characters /\ comic.available = 0))

C10_SameOrderOnRepeat ==
    (ComicsDone /\ previous.kind = "list" /\ result.kind = "list")
    => result.rows = previous.rows

\* C11: every AggregatedCount emitted by either aggregator has
\* comics_count >= 0 and a non-empty character_name.
C11_NonNegativeCountNonEmptyName ==
    (pc = "done" /\ op \in {"characters", "comics"} /\ result.kind = "list")
    => \A i \in 1..Len(result.rows) :
         IsAggregatedCount(result.rows[i])
         => /\ result.rows[i].comics_count >= 0
            /\ result.rows[i].character_name # ""

\* The character names listed by the retained comics of the upstream list.
PresentNames ==
    UNION {{comics_data[i].items[j] : j \in 1..Len(comics_data[i].items)} :
        i \in {k \in 1..Len(comics_data) :
                 comics_data[k].has_characters /\ comics_data[k].available > 0}}

\* C12: visualize_comics_counts called with a character_name that differs
\* only in letter case from a character of the upstream comics hands the
\* chart renderer a list containing that character's record.
C12_VisualizeIgnoresCase ==
    (/\ pc = "done" /\ op = "visualize" /\ primary = "ok"
     /\ aggregated_data.kind = "frame"
     /\ IsTruthyName(character_name))
    => \A n \in PresentNames :
         (n # character_name[1] /\ Lower(n) = Lower(character_name[1]))
         => /\ chart.kind = "chart"
            /\ \E i \in 1..Len(chart.rows) : chart.rows[i].character_name = n

\* The ids of the upstream characters that pass the name filter, in upstream
\* order, read off the upstream list.
RECURSIVE SurvivorIds(_, _)
SurvivorIds(list, name) ==
    IF list = <<>> THEN <<>>
    ELSE (IF IsTruthyName(name) /\ Head(list).name # name[1]
          THEN <<>> ELSE <<Head(list).id>>)
         \o SurvivorIds(Tail(list), name)

\* The outbound calls of a character-aggregation request so far: the listing
\* call first, then per-character calls for the survivors, in their order.
CallChain ==
    LET ids == SurvivorIds(characters_data, character_name)
    IN  /\ Len(calls) >= 1
        /\ calls[1].url = "characters"
        /\ Len(calls) <= 1 + Len(ids)
        /\ \A i \in 2..Len(calls) :
             /\ calls[i].url = "comics_per_character"
             /\ calls[i].character_id = ids[i - 1]
        /\ pc = "done" => Len(calls) = 1 + Len(ids)

\* C13: within one character-aggregation request the outbound calls form a
\* sequential chain: every step makes exactly one call, the listing call
\* first, then one per-character call for each character surviving the filter
\* in the order of the filtered list; filtered-out characters get no call
\* and no call is made once the result is returned.
C13_SequentialCallChain ==
    [][(op' = "characters" /\ pc' # "fetch_characters")
       => /\ pc # "done"
          /\ Len(calls') = Len(calls) + 1
          /\ SubSeq(calls', 1, Len(calls)) = calls
          /\ CallChain']_vars

C13_Witness ==
    /\ CharactersDone /\ character_name = Some("A")
    /\ Len(characters_data) = 2
    /\ characters_data[1] = [name |-> "B", id |-> 2]
    /\ characters_data[2] = [name |-> "A", id |-> 1]
    /\ Len(calls) = 2
    /\ calls[1].url = "characters"
    /\ calls[2].url = "comics_per_character" /\ calls[2].character_id = 1
    /\ result.kind = "list" /\ Len(result.rows) = 1

\* The distinct ids of the upstream comics with characters.available > 0.
RetainedIds ==
    {comics_data[k].id :
        k \in {i \in 1..Len(comics_data) :
                 comics_data[i].has_characters /\ comics_data[i].available > 0}}

ReturnsCounts ==
    /\ ComicsDone /\ result.kind = "list"
    /\ \A i \in 1..Len(result.rows) : IsAggregatedCount(result.rows[i])

DistinctNamesBoundedCounts ==
    /\ \A i, j \in 1..Len(result.rows) :
         result.rows[i].character_name = result.rows[j].character_name
         => i = j
    /\ \A i \in 1..Len(result.rows) :
         /\ result.rows[i].comics_count >= 1
         /\ result.rows[i].comics_count <= Cardinality(RetainedIds)

\* C14 (as stated): a list of AggregatedCount returned by
\* get_comics_count_from_comics has pairwise distinct names, counts between 1
\* and the number of distinct retained comic ids, and at most one record
\* whenever a name filter is given.
C14_DistinctNamesOneWithFilter ==
    ReturnsCounts
    => /\ DistinctNamesBoundedCounts
       /\ character_name # None => Len(result.rows) <= 1

\* C14 (amended): the same, with at most one record whenever a non-empty
\* name filter is given.
C14_DistinctNamesOneWithNonEmptyFilter ==
    ReturnsCounts
    => /\ DistinctNamesBoundedCounts
       /\ IsTruthyName(character_name) => Len(result.rows) <= 1

C14_Witness ==
    /\ ReturnsCounts /\ character_name = Some("A")
    /\ Len(comics_data) = 2
    /\ comics_data[1].id = 10 /\ comics_data[1].items = <<"A", "B">>
    /\ comics_data[2].id = 11 /\ comics_data[2].items = <<"A">>
    /\ result.rows = <<[character_name |-> "A", comics_count |-> 2]>>

====
